---------------------------- MODULE Spec2Model ----------------------------
(***************************************************************************)
(* The sortable, selectable DataTable of src/components/ui/data-table.tsx  *)
(* as a state machine.  The state is the component's two useState cells    *)
(* (sortState, selectedRowKeys), the props the caller passes on each       *)
(* render (data, loading, selectable, onRowSelect) and two observation     *)
(* variables: the handler that ran in the last step and the payloads      *)
(* onRowSelect received during that step.  renderedKeys is the value of    *)
(* selectedRowKeys the last render bound, which is what the handlers that  *)
(* render created read (line 108).                                         *)
(*                                                                         *)
(* JavaScript values are tagged records so that null, undefined, strings   *)
(* and numbers stay distinct: [t |-> "null"], [t |-> "undefined"],         *)
(* [t |-> "string", v |-> s], [t |-> "number", v |-> n].                   *)
(***************************************************************************)
EXTENDS Integers, Sequences, FiniteSets, TLC

VARIABLES data, loading, selectable, onRowSelect,
          sortState, selectedRowKeys, renderedKeys, calls, lastOp

vars == <<data, loading, selectable, onRowSelect,
          sortState, selectedRowKeys, renderedKeys, calls, lastOp>>

(* Longest row collection the caller supplies. *)
MaxRows == 2

---------------------------------------------------------------------------
(* JavaScript values *)

Null == [t |-> "null"]

Undefined == [t |-> "undefined"]

Str(s) == [t |-> "string", v |-> s]

Num(n) == [t |-> "number", v |-> n]

(* x == null : true of null and of undefined *)
Nullish(x) == x.t \in {"null", "undefined"}

(* a === b *)
StrictEq(a, b) ==
    /\ a.t = b.t
    /\ (Nullish(a) \/ a.v = b.v)

(* Collation rank of the strings the rows use: locale-aware comparison    *)
(* orders alphabetically before it looks at case, so "alice" < "Bob".     *)
LocaleRank(s) ==
    CASE s = "alice" -> 1
      [] s = "Bob"   -> 2

(* aValue.localeCompare(bValue) *)
LocaleCompare(a, b) ==
    IF LocaleRank(a) < LocaleRank(b) THEN -1
    ELSE IF LocaleRank(a) > LocaleRank(b) THEN 1 ELSE 0

(* aValue < bValue on two defined values that are not both strings: the  *)
(* rows hold numbers there; an operand that is no number compares false. *)
LessThan(a, b) ==
    a.t = "number" /\ b.t = "number" /\ a.v < b.v

---------------------------------------------------------------------------
(* Props *)

(* The column descriptors: two sortable columns and one that is not. *)
columns ==
    << [key |-> "name", dataIndex |-> "name", sortable |-> TRUE],
       [key |-> "age",  dataIndex |-> "age",  sortable |-> TRUE],
       [key |-> "id",   dataIndex |-> "id",   sortable |-> FALSE] >>

ColumnKeys == {columns[i].key : i \in 1..Len(columns)}

(* The rows the caller draws from: two rows with ids, one without (its    *)
(* key is its index, which can equal another row's id), a null and an     *)
(* undefined cell.  A collection may hold the same row twice.             *)
RowPool ==
    { [id |-> Num(1),    name |-> Str("Bob"),   age |-> Num(30)],
      [id |-> Num(2),    name |-> Str("alice"), age |-> Undefined],
      [id |-> Undefined, name |-> Null,         age |-> Num(25)] }

(* Every row collection of at most MaxRows rows. *)
DataSets == UNION {[1..n -> RowPool] : n \in 0..MaxRows}

---------------------------------------------------------------------------
(* Derived values of a render *)

(* getRowKey(record, index): record[rowKey] ?? index, rowKey = 'id' *)
getRowKey(record, index) ==
    IF Nullish(record.id) THEN index ELSE record.id.v

(* columns.find(col => col.key === key): the column, or <<>> for none *)
FindColumn(key) ==
    IF \E i \in 1..Len(columns) : StrictEq(Str(columns[i].key), key)
    THEN <<columns[CHOOSE i \in 1..Len(columns) :
                      /\ StrictEq(Str(columns[i].key), key)
                      /\ \A j \in 1..(i - 1) : ~StrictEq(Str(columns[j].key), key)]>>
    ELSE <<>>

(* The null branches escape the direction flip: null always sorts first. *)
ComparatorNullsAlwaysFirst(a, b, column, order) ==
    LET aValue == a[column.dataIndex]
        bValue == b[column.dataIndex]
        comparison ==
            IF aValue.t = "string" /\ bValue.t = "string"
            THEN LocaleCompare(aValue.v, bValue.v)
            ELSE IF LessThan(aValue, bValue) THEN -1 ELSE 1
    IN  IF StrictEq(aValue, bValue) THEN 0
        ELSE IF Nullish(aValue) THEN -1
        ELSE IF Nullish(bValue) THEN 1
        ELSE IF StrictEq(order, Str("desc")) THEN -comparison ELSE comparison

(* The comparator handed to sort, lines 65-81 *)
Comparator(a, b, column, order) ==
    LET aValue == a[column.dataIndex]
        bValue == b[column.dataIndex]
        comparison ==
            IF Nullish(aValue) THEN -1
            ELSE IF Nullish(bValue) THEN 1
            ELSE IF aValue.t = "string" /\ bValue.t = "string"
                 THEN LocaleCompare(aValue.v, bValue.v)
            ELSE IF LessThan(aValue, bValue) THEN -1 ELSE 1
    IN  IF StrictEq(aValue, bValue) THEN 0
        ELSE IF StrictEq(order, Str("desc")) THEN -comparison ELSE comparison

(* One insertion of the stable sort: x goes before the first element it   *)
(* compares less than, after every element it compares equal to.          *)
InsertSorted(sorted, x, column, order) ==
    LET before == {j \in 1..Len(sorted) : Comparator(x, sorted[j], column, order) < 0}
        at == IF before = {} THEN Len(sorted) + 1
              ELSE CHOOSE j \in before : \A k \in before : j <= k
    IN  SubSeq(sorted, 1, at - 1) \o <<x>> \o SubSeq(sorted, at, Len(sorted))

(* [...rows].sort(comparator): Array.prototype.sort is stable *)
RECURSIVE ArraySort(_, _, _)
ArraySort(rows, column, order) ==
    IF rows = <<>> THEN <<>>
    ELSE InsertSorted(ArraySort(SubSeq(rows, 1, Len(rows) - 1), column, order),
                      rows[Len(rows)], column, order)

(* Without an order the view falls back to ascending on the first column. *)
SortedDataOfDefaultOrder(rows, state) ==
    IF Nullish(state.column) \/ Nullish(state.order)
    THEN ArraySort(rows, columns[1], Str("asc"))
    ELSE IF FindColumn(state.column) = <<>> THEN rows
    ELSE ArraySort(rows, FindColumn(state.column)[1], state.order)

(* sortedData, lines 57-82 *)
SortedDataOf(rows, state) ==
    IF Nullish(state.column) \/ Nullish(state.order) THEN rows
    ELSE IF FindColumn(state.column) = <<>> THEN rows
    ELSE ArraySort(rows, FindColumn(state.column)[1], state.order)

sortedData == SortedDataOf(data, sortState)

(* isAllSelected, line 139 *)
isAllSelected ==
    Len(data) > 0 /\ Cardinality(selectedRowKeys) = Len(data)

(* isIndeterminate, line 140 *)
isIndeterminate ==
    Cardinality(selectedRowKeys) > 0 /\ Cardinality(selectedRowKeys) < Len(data)

(* The empty panel wins over the spinner when there are no rows. *)
RenderStateEmptyFirst ==
    IF Len(data) = 0 THEN "empty"
    ELSE IF loading THEN "loading" ELSE "populated"

(* The three render states, lines 169 and 222 *)
RenderState ==
    IF ~loading /\ Len(data) = 0 THEN "empty"
    ELSE IF loading THEN "loading" ELSE "populated"

(* data.filter((record, index) => keys.has(getRowKey(record, index))) *)
RECURSIVE FilterSelected(_, _, _)
FilterSelected(rows, keys, n) ==
    IF n = 0 THEN <<>>
    ELSE LET rest == FilterSelected(rows, keys, n - 1)
         IN  IF getRowKey(rows[n], n - 1) \in keys
             THEN Append(rest, rows[n]) ELSE rest

(* onRowSelect?.(rows): the payloads the callback receives in this step *)
Invoke(rows) == IF onRowSelect THEN <<rows>> ELSE <<>>

---------------------------------------------------------------------------
(* State after mount, lines 45-46; the props are the caller's. *)

NoSort == [column |-> Null, order |-> Null]

Init ==
    /\ data \in DataSets
    /\ loading \in BOOLEAN
    /\ selectable \in BOOLEAN
    /\ onRowSelect \in BOOLEAN
    /\ sortState = NoSort
    /\ selectedRowKeys = {}
    /\ renderedKeys = {}
    /\ calls = <<>>
    /\ lastOp = [op |-> "mount"]


---------------------------------------------------------------------------
(* Handlers *)

(* A two-phase toggle: a descending column goes back to ascending. *)
SortCycleTwoPhase(prev, column) ==
    IF ~StrictEq(prev.column, Str(column.key))
    THEN [column |-> Str(column.key), order |-> Str("asc")]
    ELSE IF StrictEq(prev.order, Str("asc"))
         THEN [column |-> Str(column.key), order |-> Str("desc")]
         ELSE [column |-> Str(column.key), order |-> Str("asc")]

(* The third phase clears the order and leaves the column active. *)
SortCycleKeepsColumn(prev, column) ==
    IF ~StrictEq(prev.column, Str(column.key))
    THEN [column |-> Str(column.key), order |-> Str("asc")]
    ELSE IF StrictEq(prev.order, Str("asc"))
         THEN [column |-> Str(column.key), order |-> Str("desc")]
         ELSE [column |-> Str(column.key), order |-> Null]

(* The third phase starts over at ascending on a second click only:      *)
(* ascending -> descending -> none, but a new column starts descending.  *)
SortCycleStartsDescending(prev, column) ==
    IF ~StrictEq(prev.column, Str(column.key))
    THEN [column |-> Str(column.key), order |-> Str("desc")]
    ELSE IF StrictEq(prev.order, Str("desc"))
         THEN [column |-> Str(column.key), order |-> Str("asc")]
         ELSE [column |-> Null, order |-> Null]

(* The updater handleSort passes to setSortState, lines 88-103 *)
SortCycle(prev, column) ==
    IF ~StrictEq(prev.column, Str(column.key))
    THEN [column |-> Str(column.key), order |-> Str("asc")]
    ELSE CASE StrictEq(prev.order, Null)        -> [column |-> Str(column.key), order |-> Str("asc")]
           [] StrictEq(prev.order, Str("asc"))  -> [column |-> Str(column.key), order |-> Str("desc")]
           [] StrictEq(prev.order, Str("desc")) -> [column |-> Null, order |-> Null]
           [] OTHER                             -> [column |-> Null, order |-> Null]

(* A click on a sortable header also resets the selection. *)
handleSortResettingSelection(c) ==
    /\ RenderState # "empty"
    /\ sortState' = IF ~columns[c].sortable THEN sortState
                    ELSE SortCycle(sortState, columns[c])
    /\ selectedRowKeys' = IF columns[c].sortable THEN {} ELSE selectedRowKeys
    /\ calls' = IF columns[c].sortable THEN Invoke(<<>>) ELSE <<>>
    /\ renderedKeys' = selectedRowKeys'
    /\ lastOp' = [op |-> "handleSort", column |-> columns[c].key]
    /\ UNCHANGED <<data, loading, selectable, onRowSelect>>

(* The sortable flag is not consulted: every header starts a cycle. *)
handleSortIgnoringSortable(c) ==
    /\ RenderState # "empty"
    /\ sortState' = SortCycle(sortState, columns[c])
    /\ calls' = <<>>
    /\ lastOp' = [op |-> "handleSort", column |-> columns[c].key]
    /\ renderedKeys' = selectedRowKeys
    /\ UNCHANGED <<data, loading, selectable, onRowSelect, selectedRowKeys>>

(* handleSort(column), lines 85-104: a click on the header cell of        *)
(* columns[c]; the header row exists in every render but the empty one.   *)
handleSort(c) ==
    /\ RenderState # "empty"
    /\ sortState' = IF ~columns[c].sortable THEN sortState
                    ELSE SortCycle(sortState, columns[c])
    /\ calls' = <<>>
    /\ lastOp' = [op |-> "handleSort", column |-> columns[c].key]
    /\ renderedKeys' = selectedRowKeys
    /\ UNCHANGED <<data, loading, selectable, onRowSelect, selectedRowKeys>>

(* Unchecking removes nothing. *)
RowSelectKeysNoDelete(keys, rowKey, selected) ==
    IF selected THEN keys \cup {rowKey} ELSE keys

(* newSelectedKeys of handleRowSelect, lines 108-114 *)
RowSelectKeys(keys, rowKey, selected) ==
    IF selected THEN keys \cup {rowKey} ELSE keys \ {rowKey}

(* The filter runs over the sorted view, in display order. *)
RowSelectPayloadOfSortedView(rows, newSelectedKeys) ==
    FilterSelected(SortedDataOf(rows, sortState), newSelectedKeys, Len(rows))

(* The rows handleRowSelect hands to onRowSelect, lines 119-121 *)
RowSelectPayload(rows, newSelectedKeys) ==
    FilterSelected(rows, newSelectedKeys, Len(rows))

(* The body of handleRowSelect(key, !!checked), lines 107-124, run from   *)
(* the checkbox of the i-th rendered row, whose key is                    *)
(* getRowKey(record, index) over sortedData (lines 232-249).  The         *)
(* checkbox reports either value.  The new set is built from the          *)
(* selectedRowKeys the last render bound.                                 *)
RowSelectBody(i, checked) ==
    /\ selectable
    /\ RenderState = "populated"
    /\ i \in 1..Len(sortedData)
    /\ LET key == getRowKey(sortedData[i], i - 1)
           newSelectedKeys == RowSelectKeys(renderedKeys, key, checked)
       IN  /\ selectedRowKeys' = newSelectedKeys
           /\ calls' = Invoke(RowSelectPayload(data, newSelectedKeys))
           /\ lastOp' = [op |-> "handleRowSelect", rowKey |-> key, selected |-> checked]
    /\ UNCHANGED <<data, loading, selectable, onRowSelect, sortState>>

(* handleRowSelect as one event of its own: the component re-renders      *)
(* when the handler returns.                                              *)
handleRowSelect(i, checked) ==
    /\ RowSelectBody(i, checked)
    /\ renderedKeys' = selectedRowKeys'

(* handleRowSelect run while a state update is still pending: the         *)
(* handler is the one the last render created and no render follows yet.  *)
handleRowSelectBeforeRender(i, checked) ==
    /\ RowSelectBody(i, checked)
    /\ UNCHANGED renderedKeys

(* The pending updates are flushed: the component renders again. *)
Render ==
    /\ renderedKeys # selectedRowKeys
    /\ renderedKeys' = selectedRowKeys
    /\ calls' = <<>>
    /\ lastOp' = [op |-> "render"]
    /\ UNCHANGED <<data, loading, selectable, onRowSelect, sortState, selectedRowKeys>>

(* The map callback drops the index: every row without id gets key 0. *)
SelectAllKeysNoIndex(rows, selected) ==
    IF selected THEN {getRowKey(rows[n], 0) : n \in 1..Len(rows)} ELSE {}

(* Unchecking the header checkbox leaves the selection as it is. *)
SelectAllKeysUncheckKeeps(rows, selected) ==
    IF selected THEN {getRowKey(rows[n], n - 1) : n \in 1..Len(rows)}
    ELSE selectedRowKeys

(* The key set handleSelectAll stores, lines 128-133 *)
SelectAllKeys(rows, selected) ==
    IF selected THEN {getRowKey(rows[n], n - 1) : n \in 1..Len(rows)} ELSE {}

(* The rows handleSelectAll hands to onRowSelect, lines 131 and 134 *)
SelectAllPayload(rows, selected) ==
    IF selected THEN rows ELSE <<>>

(* handleSelectAll(selected), lines 127-136, from the header checkbox *)
handleSelectAll(selected) ==
    /\ selectable
    /\ RenderState # "empty"
    /\ selectedRowKeys' = SelectAllKeys(data, selected)
    /\ calls' = Invoke(SelectAllPayload(data, selected))
    /\ renderedKeys' = selectedRowKeys'
    /\ lastOp' = [op |-> "handleSelectAll", selected |-> selected]
    /\ UNCHANGED <<data, loading, selectable, onRowSelect, sortState>>

(* New rows prune the selection to the keys still present and report it. *)
SetDataPruning(rows) ==
    /\ rows # data
    /\ data' = rows
    /\ selectedRowKeys' = selectedRowKeys \cap SelectAllKeys(rows, TRUE)
    /\ calls' = Invoke(FilterSelected(rows, selectedRowKeys', Len(rows)))
    /\ renderedKeys' = selectedRowKeys'
    /\ lastOp' = [op |-> "setData"]
    /\ UNCHANGED <<loading, selectable, onRowSelect, sortState>>

(* The caller renders the table with another row collection. *)
SetData(rows) ==
    /\ rows # data
    /\ data' = rows
    /\ calls' = <<>>
    /\ renderedKeys' = selectedRowKeys
    /\ lastOp' = [op |-> "setData"]
    /\ UNCHANGED <<loading, selectable, onRowSelect, sortState, selectedRowKeys>>

(* The caller flips the loading prop. *)
SetLoading ==
    /\ loading' = ~loading
    /\ calls' = <<>>
    /\ renderedKeys' = selectedRowKeys
    /\ lastOp' = [op |-> "setLoading"]
    /\ UNCHANGED <<data, selectable, onRowSelect, sortState, selectedRowKeys>>

Next ==
    \/ \E c \in 1..Len(columns) : handleSort(c)
    \/ \E i \in 1..MaxRows, checked \in BOOLEAN : handleRowSelect(i, checked)
    \/ \E selected \in BOOLEAN : handleSelectAll(selected)
    \/ \E rows \in DataSets : SetData(rows)
    \/ SetLoading

(* Every event is followed by its render before the next event. *)
Spec == Init /\ [][Next]_vars

(* Checkbox events may also be handled while an update is pending. *)
NextBatched ==
    \/ Next
    \/ \E i \in 1..MaxRows, checked \in BOOLEAN : handleRowSelectBeforeRender(i, checked)
    \/ Render

SpecBatched == Init /\ [][NextBatched]_vars

---------------------------------------------------------------------------
(* Properties of the sort cycle *)

SortableColumns == {c \in 1..Len(columns) : columns[c].sortable}

Active(key, order) == [column |-> Str(key), order |-> Str(order)]

(* C1: a click on a sortable column follows the three-phase rule and has  *)
(* no other outcome: a column that is not the active one becomes active   *)
(* ascending, an active ascending column becomes descending, an active    *)
(* descending column clears the sort state.                               *)
C1_SortCycleThreePhase ==
    [][\A c \in SortableColumns :
         handleSort(c) =>
            LET key == columns[c].key
            IN  /\ sortState.column # Str(key) => sortState' = Active(key, "asc")
                /\ sortState = Active(key, "asc") => sortState' = Active(key, "desc")
                /\ sortState = Active(key, "desc") => sortState' = NoSort
                /\ sortState' \in {Active(key, "asc"), Active(key, "desc"), NoSort}]_vars

(* C1 witness: a click has just taken the "age" column, which was active  *)
(* ascending before, to descending.                                       *)
C1_Witness ==
    /\ lastOp = [op |-> "handleSort", column |-> "age"]
    /\ sortState = Active("age", "desc")

(* Three successive clicks on columns[c], starting from state. *)
ThreeClicks(state, c) ==
    SortCycle(SortCycle(SortCycle(state, columns[c]), columns[c]), columns[c])

(* C2 as stated: from any reachable sort state, three clicks in a row on  *)
(* the same sortable column leave the sort state at {none, none}.         *)
C2_ThreeClicksClearFromAnyState ==
    \A c \in SortableColumns : ThreeClicks(sortState, c) = NoSort

(* C2 amended: three clicks in a row on a sortable column that is not the *)
(* active column when the first click arrives leave the sort state at     *)
(* {none, none}.                                                          *)
C2_ThreeClicksClear ==
    \A c \in SortableColumns :
        sortState.column # Str(columns[c].key) => ThreeClicks(sortState, c) = NoSort

(* C2 witness: the third click of a cycle has just cleared the sort state *)
(* while rows are on screen.                                              *)
C2_Witness ==
    /\ lastOp = [op |-> "handleSort", column |-> "name"]
    /\ sortState = NoSort
    /\ Len(data) > 0

(* C9: the sort state is well-formed: there is an order exactly when      *)
(* there is an active column, the order is then ascending or descending,  *)
(* and at most one column's header shows as sorted.                       *)
C9_SortStateWellFormed ==
    /\ Nullish(sortState.column) <=> Nullish(sortState.order)
    /\ sortState.column = Null \/ sortState.column \in {Str(k) : k \in ColumnKeys}
    /\ sortState.order \in {Null, Str("asc"), Str("desc")}
    /\ Cardinality({c \in 1..Len(columns) :
                      StrictEq(sortState.column, Str(columns[c].key))}) <= 1

(* C9 witness: a column is active with an order after a click. *)
C9_Witness ==
    /\ lastOp.op = "handleSort"
    /\ ~Nullish(sortState.column)
    /\ ~Nullish(sortState.order)

---------------------------------------------------------------------------
(* Properties of the selection *)

(* The key of the row at position n of rows (1-based). *)
KeyAt(rows, n) == getRowKey(rows[n], n - 1)

(* No two rows of the collection have the same key. *)
KeysDistinct(rows) ==
    \A m, n \in 1..Len(rows) : m # n => KeyAt(rows, m) # KeyAt(rows, n)

(* The keys of the checkboxes on screen, lines 232-234. *)
KeysOnScreen == {KeyAt(sortedData, i) : i \in 1..Len(sortedData)}

(* C3 as stated: after select-all(true) on a non-empty row collection,    *)
(* whatever its keys, all-selected is true.                               *)
C3_SelectAllThenAllSelectedAnyKeys ==
    (lastOp = [op |-> "handleSelectAll", selected |-> TRUE] /\ Len(data) > 0)
        => isAllSelected

(* C3 amended: after select-all(true) on a non-empty row collection whose *)
(* row keys are pairwise distinct, all-selected is true.                  *)
C3_SelectAllThenAllSelected ==
    (/\ lastOp = [op |-> "handleSelectAll", selected |-> TRUE]
     /\ Len(data) > 0
     /\ KeysDistinct(data))
        => isAllSelected

(* C3 witness: select-all(true) has just run on two rows without id,      *)
(* whose keys are their indexes, and every row is selected.               *)
C3_Witness ==
    /\ lastOp = [op |-> "handleSelectAll", selected |-> TRUE]
    /\ Len(data) >= 2
    /\ \A n \in 1..Len(data) : Nullish(data[n].id)
    /\ isAllSelected

(* Checking then unchecking the row with key k, starting from keys. *)
CheckThenUncheck(keys, k) ==
    RowSelectKeys(RowSelectKeys(keys, k, TRUE), k, FALSE)

(* C4 as stated: checking then unchecking any key on screen restores the  *)
(* selection set, whether or not the key was in it.                       *)
C4_RoundTripAnyKey ==
    \A k \in KeysOnScreen : CheckThenUncheck(selectedRowKeys, k) = selectedRowKeys

(* C4 amended: checking then unchecking a key that is not in the          *)
(* selection set restores the set; for a key that is in the set the       *)
(* result is the set without that key.                                    *)
C4_RoundTrip ==
    \A k \in KeysOnScreen \cup selectedRowKeys :
        CheckThenUncheck(selectedRowKeys, k) = selectedRowKeys \ {k}

(* C4 witness: a row has just been unchecked, its key is gone from the    *)
(* selection set and another key is still selected.                       *)
C4_Witness ==
    /\ lastOp.op = "handleRowSelect"
    /\ ~lastOp.selected
    /\ lastOp.rowKey \notin selectedRowKeys
    /\ selectedRowKeys # {}

(* The selected records in the order of the caller's collection. *)
SelectedInInputOrder == FilterSelected(data, selectedRowKeys, Len(data))

(* The selected records in the order of the sorted view (the sort is      *)
(* stable, so sorting the selected records gives their display order).    *)
SelectedInDisplayOrder == SortedDataOf(SelectedInInputOrder, sortState)

SelectionOp == lastOp.op \in {"handleRowSelect", "handleSelectAll"}

(* C6 as stated: a selection operation calls onRowSelect exactly once     *)
(* with the selected records in display order.                            *)
C6_CallbackInDisplayOrder ==
    (SelectionOp /\ onRowSelect) => calls = <<SelectedInDisplayOrder>>

(* C6 amended: a selection operation calls onRowSelect, when provided,    *)
(* exactly once in the same step, with the records of the row collection  *)
(* whose keys are in the updated selection set, in the order of the       *)
(* caller's collection; without a callback nothing is called.             *)
C6_CallbackInInputOrder ==
    SelectionOp =>
        calls = IF onRowSelect THEN <<SelectedInInputOrder>> ELSE <<>>

(* C6 witness: with a sort active, a selection operation has reported two *)
(* records whose display order differs from their input order.            *)
C6_Witness ==
    /\ SelectionOp
    /\ onRowSelect
    /\ ~Nullish(sortState.column)
    /\ Len(calls) = 1
    /\ Len(calls[1]) >= 2
    /\ SelectedInDisplayOrder # SelectedInInputOrder

(* C7: replacing the row collection leaves the selection set and the sort *)
(* state as they were and calls nothing; all-selected and                 *)
(* partially-selected then follow from the size of the unpruned set and   *)
(* the size of the new collection.                                        *)
C7_ReplaceRowsKeepsState ==
    [][lastOp' = [op |-> "setData"] =>
          /\ data' # data
          /\ selectedRowKeys' = selectedRowKeys
          /\ sortState' = sortState
          /\ calls' = <<>>
          /\ isAllSelected' =
                (Len(data') > 0 /\ Cardinality(selectedRowKeys) = Len(data'))
          /\ isIndeterminate' =
                (Cardinality(selectedRowKeys) > 0
                 /\ Cardinality(selectedRowKeys) < Len(data'))]_vars

(* C7 witness: the rows have just been replaced by a non-empty collection *)
(* that has none of the two selected keys.                                *)
C7_Witness ==
    /\ lastOp = [op |-> "setData"]
    /\ Len(data) > 0
    /\ Cardinality(selectedRowKeys) = 2
    /\ selectedRowKeys \cap SelectAllKeys(data, TRUE) = {}

(* C8: a sort click changes neither the selection set nor calls           *)
(* onRowSelect; a selection operation does not change the sort state.     *)
C8_SortAndSelectionIndependent ==
    [][/\ lastOp'.op = "handleSort" =>
            (selectedRowKeys' = selectedRowKeys /\ calls' = <<>>)
       /\ lastOp'.op \in {"handleRowSelect", "handleSelectAll"} =>
            sortState' = sortState]_vars

(* C8 witness: a sort click has just activated a column while rows are    *)
(* selected and a callback is provided.                                   *)
C8_Witness ==
    /\ lastOp.op = "handleSort"
    /\ ~Nullish(sortState.column)
    /\ selectedRowKeys # {}
    /\ onRowSelect
    /\ calls = <<>>

---------------------------------------------------------------------------
(* Properties of the sorted view *)

(* The column the sort state names, when it names one with an order. *)
SortIsActive ==
    /\ ~Nullish(sortState.column)
    /\ ~Nullish(sortState.order)
    /\ FindColumn(sortState.column) # <<>>

ActiveField == FindColumn(sortState.column)[1].dataIndex

(* C5: in the sorted view every row whose cell in the active column is    *)
(* null or undefined comes before every row with a defined cell when the  *)
(* order is ascending, and after every such row when it is descending.    *)
C5_NullsFirstAscendingLastDescending ==
    SortIsActive =>
        \A i, j \in 1..Len(sortedData) :
            (/\ Nullish(sortedData[i][ActiveField])
             /\ ~Nullish(sortedData[j][ActiveField]))
                => IF sortState.order = Str("asc") THEN i < j ELSE j < i

(* C5 witness: a descending sort has moved a row with a null or undefined *)
(* cell from the front of the input behind a row with a defined cell.     *)
C5_Witness ==
    /\ SortIsActive
    /\ sortState.order = Str("desc")
    /\ Len(data) >= 2
    /\ Nullish(data[1][ActiveField])
    /\ ~Nullish(sortedData[1][ActiveField])
    /\ Nullish(sortedData[Len(sortedData)][ActiveField])

(* C10: whenever no column is active the rendered rows are the caller's   *)
(* rows in the caller's order, in particular once a click has ended an    *)
(* ascending -> descending -> none cycle.                                 *)
C10_NoActiveColumnMeansInputOrder ==
    Nullish(sortState.column) => sortedData = data

(* C10 witness: a click on "name" has just ended a cycle and the view is  *)
(* the input again, which is not in ascending order of that column.       *)
C10_Witness ==
    /\ lastOp = [op |-> "handleSort", column |-> "name"]
    /\ sortState = NoSort
    /\ Len(data) >= 2
    /\ SortedDataOf(data, Active("name", "asc")) # data
    /\ sortedData = data

---------------------------------------------------------------------------
(* Properties of the no-op click and of clearing the selection *)

NonSortableKeys == {columns[c].key : c \in (1..Len(columns)) \ SortableColumns}

(* C11: a click on the header of a column that is not sortable changes    *)
(* nothing: the sort state, the selection set and the rendered order stay *)
(* as they were and onRowSelect is not called, whatever column is active. *)
C11_NonSortableClickIsNoOp ==
    [][(lastOp'.op = "handleSort" /\ lastOp'.column \in NonSortableKeys) =>
          /\ sortState' = sortState
          /\ selectedRowKeys' = selectedRowKeys
          /\ data' = data
          /\ SortedDataOf(data', sortState') = SortedDataOf(data, sortState)
          /\ calls' = <<>>]_vars

(* C11 witness: the non-sortable header has just been clicked while       *)
(* another column is active descending, rows are selected and the view    *)
(* is not in input order.                                                 *)
C11_Witness ==
    /\ lastOp.op = "handleSort"
    /\ lastOp.column \in NonSortableKeys
    /\ sortState.order = Str("desc")
    /\ selectedRowKeys # {}
    /\ sortedData # data

(* C12: after select-all(false) the selection set is empty, all-selected  *)
(* and partially-selected are false, and onRowSelect, when provided, has  *)
(* been called once with an empty collection.                             *)
C12_UnselectAllClears ==
    lastOp = [op |-> "handleSelectAll", selected |-> FALSE] =>
        /\ selectedRowKeys = {}
        /\ ~isAllSelected
        /\ ~isIndeterminate
        /\ onRowSelect => calls = << <<>> >>

(* C12 witness: select-all(false) has just run on a populated table with  *)
(* a callback, which received the empty collection.                       *)
C12_Witness ==
    /\ lastOp = [op |-> "handleSelectAll", selected |-> FALSE]
    /\ RenderState = "populated"
    /\ Len(data) >= 2
    /\ onRowSelect
    /\ calls = << <<>> >>
    /\ selectedRowKeys = {}

---------------------------------------------------------------------------
(* Properties of the keys on screen *)

(* Some displayed row is selected and some displayed row is not. *)
SomeButNotAllDisplayedSelected ==
    /\ KeysOnScreen \cap selectedRowKeys # {}
    /\ KeysOnScreen \ selectedRowKeys # {}

(* C13: while rows are displayed, partially-selected is true exactly when *)
(* at least one displayed row's key is in the selection set and at least  *)
(* one displayed row's key is not.  Stated for collections in which every *)
(* row has an id and no two rows share one, where the keys on screen do   *)
(* not depend on the sort.                                                *)
C13_IndeterminateIffSomeButNotAll ==
    (/\ RenderState = "populated"
     /\ \A n \in 1..Len(data) : ~Nullish(data[n].id)
     /\ KeysDistinct(data))
        => (isIndeterminate <=> SomeButNotAllDisplayedSelected)

(* C14: the key on screen of a row without id is that record's index in   *)
(* the caller's collection, the key handleSelectAll and the callback      *)
(* filter give it, under any sort.                                        *)
C14_ScreenKeyIsInputIndex ==
    RenderState = "populated" =>
        \A i \in 1..Len(sortedData) :
            Nullish(sortedData[i].id) =>
                \E n \in 1..Len(data) :
                    /\ data[n] = sortedData[i]
                    /\ KeyAt(sortedData, i) = KeyAt(data, n)

---------------------------------------------------------------------------
(* Properties of the render states *)

(* C15: while loading is true no step changes the sort state or the       *)
(* selection set or calls onRowSelect.                                    *)
C15_NoInteractionWhileLoading ==
    [][loading =>
          /\ sortState' = sortState
          /\ selectedRowKeys' = selectedRowKeys
          /\ calls' = <<>>]_vars

---------------------------------------------------------------------------
(* Properties of checkbox events handled before the re-render *)

(* What a toggle of key k makes of the set keys. *)
Toggled(keys, k, selected) ==
    IF selected THEN keys \cup {k} ELSE keys \ {k}

(* C17: no toggle is lost: every handleRowSelect event, also one handled  *)
(* before the render that follows an earlier event, leaves the selection  *)
(* set at the set before the event with the event's key added or removed, *)
(* and reports the records of that set.                                   *)
C17_NoToggleLost ==
    [][lastOp'.op = "handleRowSelect" =>
          LET expected == Toggled(selectedRowKeys, lastOp'.rowKey, lastOp'.selected)
          IN  /\ selectedRowKeys' = expected
              /\ onRowSelect =>
                    calls' = <<FilterSelected(data, expected, Len(data))>>]_vars

=============================================================================
